---- MODULE Spec2Model ----
(***************************************************************************)
(* The task queue of packages/features/tasker/repository.ts: the Task      *)
(* table, the three query filters and the static methods of class Task,   *)
(* called by concurrent producers and workers.  Dates are milliseconds.    *)
(***************************************************************************)
EXTENDS Integers, Sequences, FiniteSets, TLC

(* ---------------------------- bounds ---------------------------------- *)
\* Spec, the whole queue: rows ever inserted (ids are never reused), minutes the
\* clock runs, retry/succeed calls on one task, largest maxAttempts asked for
MaxTasks == 2
MaxNow == 2
MaxCalls == 1
MaxMaxAttempts == 1
\* TaskSpec, the life of one task: the same, for the single row it inserts
TaskMaxNow == 2
TaskMaxCalls == 3
TaskMaxMaxAttempts == 2
\* largest minRetryIntervalMins a worker passes
MaxRetryMins == 1

(* ------------------------- values and domains -------------------------- *)
NULL == -1
UNDEFINED == -2
NullString == "<null>"
UndefinedString == "<undefined>"

Workers == {"w1", "w2"}
TaskTypes == {"sendEmail", "scanWorkflowBody"}
ReferenceUids == {"ref1"}
Payloads == {"{}"}
LastErrors == {"boom"}
Ids == 1..MaxTasks

Minutes(n) == 1000 * 60 * n
Dates(maxNow) == {Minutes(n) : n \in 0..maxNow}

\* Prisma error codes: unique constraint failed, record not found, database unreachable
ConflictError == "P2002"
NotFoundError == "P2025"
StoreError == "P1001"
NoError == "none"

\* a worker with no call in flight
NoCall == [op |-> "none"]

VARIABLES
  tasks,      \* the Task table: id -> row
  nextId,     \* the id the next inserted row gets
  now,        \* the clock, what new Date() returns
  batch,      \* worker -> the tasks it got from getNextBatch and has not reported yet
  calls,      \* history: id -> number of retry/succeed calls that updated the row
  retryOnly,  \* history: id -> no succeed call has updated the row
  result,     \* what the last call returned or threw
  lost,       \* id -> "lost" once a worker crashed holding the task unreported,
              \*       "again" once a getNextBatch has handed it out after that
  inflight    \* worker -> the update it has sent and the store has not applied yet

vars == <<tasks, nextId, now, batch, calls, retryOnly, result, lost, inflight>>

(* ----------------------------- helpers -------------------------------- *)
Min(a, b) == IF a < b THEN a ELSE b

Extend(f, k, v) == [x \in DOMAIN f \cup {k} |-> IF x = k THEN v ELSE f[x]]

Remove(f, k) == [x \in DOMAIN f \ {k} |-> f[x]]

Range(s) == {s[i] : i \in DOMAIN s}

Without(s, x) == SelectSeq(s, LAMBDA y : y # x)

\* how a call ends: the value it returns, or the error it throws
Returned(op, ret) == [op |-> op, err |-> NoError, ret |-> ret]

Thrown(op, code) == [op |-> op, err |-> code, ret |-> NULL]

(* --------------------------- query filters ----------------------------- *)
whereSucceeded(t) == t.succeededAt # NULL

whereMaxAttemptsReached(t) == t.attempts = t.maxAttempts

\* attempts compared with lte instead of lt
makeWhereUpcomingTasksLte(t, date) ==
  /\ t.succeededAt = NULL
  /\ t.scheduledAt < date
  /\ t.attempts <= t.maxAttempts

makeWhereUpcomingTasks(t, date) ==
  /\ t.succeededAt = NULL
  /\ t.scheduledAt < date
  /\ t.attempts < t.maxAttempts

(* ------------------------------ create --------------------------------- *)
\* the data object handed to db.task.create
CreateData(type, payload, scheduledAt, maxAttempts, referenceUid) ==
  [type |-> type, payload |-> payload, scheduledAt |-> scheduledAt,
   maxAttempts |-> maxAttempts, referenceUid |-> referenceUid]

\* the unique index on (referenceUid, type); SQL nulls are distinct
UniqueViolation(data) ==
  /\ data.referenceUid # NullString
  /\ \E id \in DOMAIN tasks :
       /\ tasks[id].referenceUid = data.referenceUid
       /\ tasks[id].type = data.type

\* the row the store inserts: column defaults fill what data leaves out
InsertedRow(data) ==
  [type |-> data.type,
   payload |-> data.payload,
   scheduledAt |-> IF data.scheduledAt = UNDEFINED THEN now ELSE data.scheduledAt,
   attempts |-> 0,
   maxAttempts |-> data.maxAttempts,
   lastError |-> NullString,
   lastFailedAttemptAt |-> NULL,
   succeededAt |-> NULL,
   referenceUid |-> IF data.referenceUid = UndefinedString THEN NullString
                    ELSE data.referenceUid]

\* create written as an upsert on the unique key: a colliding call overwrites the row
CreateUpsert(type, payload, scheduledAt, maxAttempts, referenceUid) ==
  LET data == CreateData(type, payload, scheduledAt, maxAttempts, referenceUid) IN
  /\ IF UniqueViolation(InsertedRow(data))
     THEN \E id \in DOMAIN tasks :
            /\ tasks[id].referenceUid = referenceUid
            /\ tasks[id].type = type
            /\ tasks' = [tasks EXCEPT ![id] = InsertedRow(data)]
            /\ result' = Returned("create", id)
            /\ UNCHANGED nextId
     ELSE /\ tasks' = Extend(tasks, nextId, InsertedRow(data))
          /\ nextId' = nextId + 1
          /\ result' = Returned("create", nextId)
  /\ UNCHANGED <<now, batch, calls, retryOnly, lost, inflight>>

Create(type, payload, scheduledAt, maxAttempts, referenceUid) ==
  LET data == CreateData(type, payload, scheduledAt, maxAttempts, referenceUid) IN
  /\ IF UniqueViolation(InsertedRow(data))
     THEN /\ result' = Thrown("create", ConflictError)
          /\ UNCHANGED <<tasks, nextId>>
     ELSE /\ tasks' = Extend(tasks, nextId, InsertedRow(data))
          /\ nextId' = nextId + 1
          /\ result' = Returned("create", nextId)
  /\ UNCHANGED <<now, batch, calls, retryOnly, lost, inflight>>

(* --------------------------- getNextBatch ------------------------------ *)
Take == 1000

\* orderBy scheduledAt "desc"
OrderByScheduledAtDesc(S) ==
  {s \in [1..Cardinality(S) -> S] :
     /\ \A i, j \in DOMAIN s : i # j => s[i] # s[j]
     /\ \A i, j \in DOMAIN s : i < j => tasks[s[i]].scheduledAt >= tasks[s[j]].scheduledAt}

\* the ids of S in every order that is ascending in scheduledAt
OrderByScheduledAtAsc(S) ==
  {s \in [1..Cardinality(S) -> S] :
     /\ \A i, j \in DOMAIN s : i # j => s[i] # s[j]
     /\ \A i, j \in DOMAIN s : i < j => tasks[s[i]].scheduledAt <= tasks[s[j]].scheduledAt}

\* the read skips every task some worker was handed and did not report: a claim
\* mark that never expires
FindManyUnclaimed(date) ==
  LET claimed == {id \in Ids : lost[id] = "lost"}
                   \cup UNION {Range(batch[w]) : w \in DOMAIN batch}
      matching == {id \in DOMAIN tasks \ claimed :
                     makeWhereUpcomingTasks(tasks[id], date)} IN
  {SubSeq(s, 1, Min(Take, Len(s))) : s \in OrderByScheduledAtAsc(matching)}

\* what db.task.findMany({ where: makeWhereUpcomingTasks(), orderBy, take }) can return
FindManyUpcoming(date) ==
  LET matching == {id \in DOMAIN tasks : makeWhereUpcomingTasks(tasks[id], date)} IN
  {SubSeq(s, 1, Min(Take, Len(s))) : s \in OrderByScheduledAtAsc(matching)}

\* getNextBatch declares no parameter: a limit passed by the caller is dropped
GetNextBatch(w, limit) ==
  /\ batch[w] = <<>>
  /\ \E found \in FindManyUpcoming(now) :
       /\ batch' = [batch EXCEPT ![w] = found]
       /\ lost' = [id \in Ids |-> IF id \in Range(found) /\ lost[id] = "lost"
                                THEN "again" ELSE lost[id]]
  /\ result' = Returned("getNextBatch", NULL)
  /\ UNCHANGED <<tasks, nextId, now, calls, retryOnly, inflight>>

(* -------------------------------- retry -------------------------------- *)
\* JavaScript truthiness of a number | null | undefined
Truthy(n) == n \notin {UNDEFINED, NULL, 0}

UpdatedScheduledAt(failedAttemptTime, minRetryIntervalMins) ==
  IF Truthy(minRetryIntervalMins)
  THEN failedAttemptTime + 1000 * 60 * minRetryIntervalMins
  ELSE UNDEFINED

\* the row after db.task.update with retry's data; an undefined field is left alone
RetryData(t, lastError, failedAttemptTime, updatedScheduledAt) ==
  [t EXCEPT !.attempts = @ + 1,
            !.lastError = IF lastError = UndefinedString THEN @ ELSE lastError,
            !.lastFailedAttemptAt = failedAttemptTime,
            !.scheduledAt = IF updatedScheduledAt # UNDEFINED THEN updatedScheduledAt ELSE @]

Retry(w, taskId, lastError, minRetryIntervalMins) ==
  LET failedAttemptTime == now
      updatedScheduledAt == UpdatedScheduledAt(failedAttemptTime, minRetryIntervalMins) IN
  /\ IF taskId \in DOMAIN tasks
     THEN /\ tasks' = [tasks EXCEPT ![taskId] =
                         RetryData(@, lastError, failedAttemptTime, updatedScheduledAt)]
          /\ calls' = [calls EXCEPT ![taskId] = @ + 1]
          /\ result' = Returned("retry", taskId)
     ELSE /\ result' = Thrown("retry", NotFoundError)
          /\ UNCHANGED <<tasks, calls>>
  /\ batch' = [batch EXCEPT ![w] = Without(@, taskId)]
  /\ UNCHANGED <<nextId, now, retryOnly, lost, inflight>>

(* ------------------------------- succeed ------------------------------- *)
\* succeed stamps the row and forgets the attempt
SucceedDataNoIncrement(t, date) ==
  [t EXCEPT !.succeededAt = date]

SucceedData(t, date) ==
  [t EXCEPT !.attempts = @ + 1,
            !.succeededAt = date]

\* succeed written as an upsert: a missing row is created again
SucceedUpsert(w, taskId) ==
  /\ IF taskId \in DOMAIN tasks
     THEN /\ tasks' = [tasks EXCEPT ![taskId] = SucceedData(@, now)]
          /\ calls' = [calls EXCEPT ![taskId] = @ + 1]
          /\ retryOnly' = [retryOnly EXCEPT ![taskId] = FALSE]
          /\ result' = Returned("succeed", taskId)
     ELSE /\ tasks' = Extend(tasks, taskId,
                        SucceedData(InsertedRow(CreateData("sendEmail", "{}", UNDEFINED,
                                                           1, UndefinedString)), now))
          /\ result' = Returned("succeed", taskId)
          /\ UNCHANGED <<calls, retryOnly>>
  /\ batch' = [batch EXCEPT ![w] = Without(@, taskId)]
  /\ UNCHANGED <<nextId, now, lost, inflight>>

Succeed(w, taskId) ==
  /\ IF taskId \in DOMAIN tasks
     THEN /\ tasks' = [tasks EXCEPT ![taskId] = SucceedData(@, now)]
          /\ calls' = [calls EXCEPT ![taskId] = @ + 1]
          /\ retryOnly' = [retryOnly EXCEPT ![taskId] = FALSE]
          /\ result' = Returned("succeed", taskId)
     ELSE /\ result' = Thrown("succeed", NotFoundError)
          /\ UNCHANGED <<tasks, calls, retryOnly>>
  /\ batch' = [batch EXCEPT ![w] = Without(@, taskId)]
  /\ UNCHANGED <<nextId, now, lost, inflight>>

(* ------------------------------- cancel -------------------------------- *)
\* cancel written with deleteMany: a missing row is no error
CancelDeleteMany(taskId) ==
  /\ IF taskId \in DOMAIN tasks
     THEN /\ tasks' = Remove(tasks, taskId)
          /\ result' = Returned("cancel", taskId)
     ELSE /\ result' = Returned("cancel", NULL)
          /\ UNCHANGED tasks
  /\ UNCHANGED <<nextId, now, batch, calls, retryOnly, lost, inflight>>

Cancel(taskId) ==
  /\ IF taskId \in DOMAIN tasks
     THEN /\ tasks' = Remove(tasks, taskId)
          /\ result' = Returned("cancel", taskId)
     ELSE /\ result' = Thrown("cancel", NotFoundError)
          /\ UNCHANGED tasks
  /\ UNCHANGED <<nextId, now, batch, calls, retryOnly, lost, inflight>>

(* -------------------------- cancelWithReference ------------------------ *)
\* the rows the unique key referenceUid_type selects
ReferenceUidType(referenceUid, type) ==
  {id \in DOMAIN tasks : tasks[id].referenceUid = referenceUid /\ tasks[id].type = type}

\* the catch clause swallows whatever the store throws
IsAnyError(code) == code # NoError

\* the catch clause swallows this error and rethrows every other one
IsRecordToDeleteDoesNotExist(code) == code = "P2025"

\* fault: the error the store fails with before it touches the table, or NoError
CancelWithReference(referenceUid, type, fault) ==
  LET found == ReferenceUidType(referenceUid, type)
      error == IF fault # NoError THEN fault
               ELSE IF found = {} THEN NotFoundError ELSE NoError IN
  /\ IF error = NoError
     THEN \E id \in found :
            /\ tasks' = Remove(tasks, id)
            /\ result' = Returned("cancelWithReference", id)
     ELSE /\ UNCHANGED tasks
          /\ result' = IF IsRecordToDeleteDoesNotExist(error)
                       THEN Returned("cancelWithReference", NULL)
                       ELSE Thrown("cancelWithReference", error)
  /\ UNCHANGED <<nextId, now, batch, calls, retryOnly, lost, inflight>>

(* ------------------------------- cleanup ------------------------------- *)
\* the deleteMany is commented out: the body is empty
Cleanup ==
  /\ result' = Returned("cleanup", NULL)
  /\ UNCHANGED <<tasks, nextId, now, batch, calls, retryOnly, lost, inflight>>

(* ------------------------------ clock ---------------------------------- *)
Tick ==
  /\ now' = now + Minutes(1)
  /\ UNCHANGED <<tasks, nextId, batch, calls, retryOnly, result, lost, inflight>>

Init ==
  /\ tasks = <<>>
  /\ nextId = 1
  /\ now = 0
  /\ batch = [w \in Workers |-> <<>>]
  /\ calls = [id \in Ids |-> 0]
  /\ retryOnly = [id \in Ids |-> TRUE]
  /\ result = Returned("none", NULL)
  /\ lost = [id \in Ids |-> "no"]
  /\ inflight = [w \in Workers |-> NoCall]

(* ------------------- the callers: producers and workers ---------------- *)
\* a retry or succeed call the bound still allows
Allowed(taskId, maxCalls) == taskId \in DOMAIN tasks => calls[taskId] < maxCalls

\* the bound is on the rows inserted: a create the store refuses is always possible
DoCreate(maxTasks, maxNow, maxMaxAttempts) ==
  \E type \in TaskTypes, payload \in Payloads,
     scheduledAt \in Dates(maxNow) \cup {UNDEFINED},
     maxAttempts \in 1..maxMaxAttempts,
     referenceUid \in ReferenceUids \cup {UndefinedString} :
    /\ \/ nextId <= maxTasks
       \/ UniqueViolation(InsertedRow(
            CreateData(type, payload, scheduledAt, maxAttempts, referenceUid)))
    /\ Create(type, payload, scheduledAt, maxAttempts, referenceUid)

DoGetNextBatch ==
  \E w \in Workers, limit \in 1..MaxTasks : GetNextBatch(w, limit)

DoRetry(maxCalls) ==
  \E w \in Workers, taskId \in Ids, lastError \in LastErrors,
     minRetryIntervalMins \in (0..MaxRetryMins) \cup {NULL, UNDEFINED} :
    /\ Allowed(taskId, maxCalls)
    /\ Retry(w, taskId, lastError, minRetryIntervalMins)

DoSucceed(maxCalls) ==
  \E w \in Workers, taskId \in Ids :
    /\ Allowed(taskId, maxCalls)
    /\ Succeed(w, taskId)

DoCancel == \E taskId \in Ids : Cancel(taskId)

DoCancelWithReference ==
  \E referenceUid \in ReferenceUids, type \in TaskTypes, fault \in {NoError, StoreError} :
    CancelWithReference(referenceUid, type, fault)

DoTick(maxNow) == now < Minutes(maxNow) /\ Tick

Next ==
  \/ DoCreate(MaxTasks, MaxNow, MaxMaxAttempts)
  \/ DoGetNextBatch
  \/ DoRetry(MaxCalls)
  \/ DoSucceed(MaxCalls)
  \/ DoCancel
  \/ DoCancelWithReference
  \/ Cleanup
  \/ DoTick(MaxNow)

Spec == Init /\ [][Next]_vars

\* one task, followed through more attempts and more time
TaskNext ==
  \/ DoCreate(1, TaskMaxNow, TaskMaxMaxAttempts)
  \/ DoGetNextBatch
  \/ DoRetry(TaskMaxCalls)
  \/ DoSucceed(TaskMaxCalls)
  \/ DoCancel
  \/ DoCancelWithReference
  \/ Cleanup
  \/ DoTick(TaskMaxNow)

TaskSpec == Init /\ [][TaskNext]_vars

\* workers that follow the worker loop: one succeed or retry per task of the batch
\* they were handed, and for no other task
ProtocolRetry ==
  \E w \in Workers, lastError \in LastErrors,
     minRetryIntervalMins \in (0..MaxRetryMins) \cup {NULL, UNDEFINED} :
    \E taskId \in Range(batch[w]) :
      Retry(w, taskId, lastError, minRetryIntervalMins)

ProtocolSucceed ==
  \E w \in Workers : \E taskId \in Range(batch[w]) : Succeed(w, taskId)

ProtocolNext ==
  \/ DoCreate(1, TaskMaxNow, TaskMaxMaxAttempts)
  \/ DoGetNextBatch
  \/ ProtocolRetry
  \/ ProtocolSucceed
  \/ DoCancel
  \/ DoCancelWithReference
  \/ Cleanup
  \/ DoTick(TaskMaxNow)

ProtocolSpec == Init /\ [][ProtocolNext]_vars

(* --------------------- workers that keep running ---------------------- *)
\* The clock of the model stops at TaskMaxNow minutes, the real one does not: a task
\* is created, or pushed back by a retry, only to a time the clock still passes.
LiveCreate ==
  /\ nextId <= 1
  /\ now < Minutes(TaskMaxNow)
  /\ \E type \in TaskTypes, payload \in Payloads,
        scheduledAt \in Dates(TaskMaxNow - 1) \cup {UNDEFINED},
        maxAttempts \in 1..TaskMaxMaxAttempts,
        referenceUid \in ReferenceUids \cup {UndefinedString} :
       Create(type, payload, scheduledAt, maxAttempts, referenceUid)

Poll(w) == \E limit \in 1..MaxTasks : GetNextBatch(w, limit)

\* worker w reports one task of its batch, as failed or as done
Report(w) ==
  \E taskId \in Range(batch[w]) :
    \/ \E lastError \in LastErrors,
          minRetryIntervalMins \in (0..MaxRetryMins) \cup {NULL, UNDEFINED} :
         /\ Truthy(minRetryIntervalMins) =>
              now + Minutes(minRetryIntervalMins) < Minutes(TaskMaxNow)
         /\ Retry(w, taskId, lastError, minRetryIntervalMins)
    \/ Succeed(w, taskId)

LiveNext ==
  \/ LiveCreate
  \/ \E w \in Workers : Poll(w)
  \/ \E w \in Workers : Report(w)
  \/ DoCancel
  \/ DoTick(TaskMaxNow)

\* time advances, every worker with an empty batch polls, every task handed out is
\* reported
LiveFairness ==
  /\ WF_vars(DoTick(TaskMaxNow))
  /\ \A w \in Workers : WF_vars(Poll(w))
  /\ \A w \in Workers : WF_vars(Report(w))

LiveSpec == Init /\ [][LiveNext]_vars /\ LiveFairness

\* worker w dies with its batch unreported and starts again with nothing
Crash(w) ==
  /\ batch[w] # <<>>
  /\ lost' = [id \in Ids |-> IF id \in Range(batch[w]) THEN "lost" ELSE lost[id]]
  /\ batch' = [batch EXCEPT ![w] = <<>>]
  /\ UNCHANGED <<tasks, nextId, now, calls, retryOnly, result, inflight>>

CrashNext ==
  \/ LiveCreate
  \/ \E w \in Workers : Poll(w)
  \/ \E w \in Workers : Report(w)
  \/ \E w \in Workers : Crash(w)
  \/ DoCancel
  \/ DoTick(TaskMaxNow)

CrashSpec == Init /\ [][CrashNext]_vars /\ LiveFairness

(* ------------- calls that overlap: sent, then applied by the store ------------- *)
\* The arguments of an update are evaluated when the method is called; the store
\* applies the update later, as one statement.  seen is history: the attempts the
\* row had when the call was made, which the code does not read.
Seen(taskId) == IF taskId \in DOMAIN tasks THEN tasks[taskId].attempts ELSE NULL

RetryCall(w, taskId, lastError, minRetryIntervalMins) ==
  /\ inflight[w] = NoCall
  /\ inflight' = [inflight EXCEPT ![w] =
       [op |-> "retry", taskId |-> taskId, lastError |-> lastError,
        failedAttemptTime |-> now,
        updatedScheduledAt |-> UpdatedScheduledAt(now, minRetryIntervalMins),
        seen |-> Seen(taskId)]]
  /\ UNCHANGED <<tasks, nextId, now, batch, calls, retryOnly, result, lost>>

SucceedCall(w, taskId) ==
  /\ inflight[w] = NoCall
  /\ inflight' = [inflight EXCEPT ![w] =
       [op |-> "succeed", taskId |-> taskId, succeededAt |-> now, seen |-> Seen(taskId)]]
  /\ UNCHANGED <<tasks, nextId, now, batch, calls, retryOnly, result, lost>>

\* the row after the update call c
UpdateData(t, c) ==
  IF c.op = "retry"
  THEN RetryData(t, c.lastError, c.failedAttemptTime, c.updatedScheduledAt)
  ELSE SucceedData(t, c.succeededAt)

\* the update writes attempts as the value read at the call plus one
StoreUpdateFromRead(w) ==
  LET c == inflight[w] IN
  /\ c # NoCall
  /\ IF c.taskId \in DOMAIN tasks
     THEN /\ tasks' = [tasks EXCEPT ![c.taskId] =
                         [UpdateData(@, c) EXCEPT !.attempts = c.seen + 1]]
          /\ calls' = [calls EXCEPT ![c.taskId] = @ + 1]
          /\ retryOnly' = [retryOnly EXCEPT ![c.taskId] = @ /\ c.op = "retry"]
          /\ result' = Returned(c.op, c.taskId)
     ELSE /\ result' = Thrown(c.op, NotFoundError)
          /\ UNCHANGED <<tasks, calls, retryOnly>>
  /\ batch' = [batch EXCEPT ![w] = Without(@, c.taskId)]
  /\ inflight' = [inflight EXCEPT ![w] = NoCall]
  /\ UNCHANGED <<nextId, now, lost>>

\* the store applies the update of worker w: attempts: { increment: 1 }
StoreUpdate(w) ==
  LET c == inflight[w] IN
  /\ c # NoCall
  /\ IF c.taskId \in DOMAIN tasks
     THEN /\ tasks' = [tasks EXCEPT ![c.taskId] = UpdateData(@, c)]
          /\ calls' = [calls EXCEPT ![c.taskId] = @ + 1]
          /\ retryOnly' = [retryOnly EXCEPT ![c.taskId] = @ /\ c.op = "retry"]
          /\ result' = Returned(c.op, c.taskId)
     ELSE /\ result' = Thrown(c.op, NotFoundError)
          /\ UNCHANGED <<tasks, calls, retryOnly>>
  /\ batch' = [batch EXCEPT ![w] = Without(@, c.taskId)]
  /\ inflight' = [inflight EXCEPT ![w] = NoCall]
  /\ UNCHANGED <<nextId, now, lost>>

\* at most this many calls on a task, applied or in flight
RaceMaxCalls == 2
\* the clock of the overlapping calls stops at this many minutes
RaceMaxNow == 1

\* the calls made on the task so far, applied or in flight
Started(taskId) ==
  calls[taskId] + Cardinality({w \in Workers : /\ inflight[w] # NoCall
                                                /\ inflight[w].taskId = taskId})

RaceRetryCall ==
  \E w \in Workers, taskId \in Ids, lastError \in LastErrors,
     minRetryIntervalMins \in (0..MaxRetryMins) \cup {NULL, UNDEFINED} :
    /\ Started(taskId) < RaceMaxCalls
    /\ RetryCall(w, taskId, lastError, minRetryIntervalMins)

RaceSucceedCall ==
  \E w \in Workers, taskId \in Ids :
    /\ Started(taskId) < RaceMaxCalls
    /\ SucceedCall(w, taskId)

RaceNext ==
  \/ DoCreate(1, RaceMaxNow, MaxMaxAttempts)
  \/ DoGetNextBatch
  \/ RaceRetryCall
  \/ RaceSucceedCall
  \/ \E w \in Workers : StoreUpdate(w)
  \/ DoCancel
  \/ DoTick(RaceMaxNow)

RaceSpec == Init /\ [][RaceNext]_vars

(* ---------------------- hasNewerScanTaskForStepId ---------------------- *)
Missing == "<missing>"
NaN == -3
RawQueryError == "P2010"

ScanPayloads ==
  {"not json",
   "{\"workflowStepId\":1}",
   "{\"workflowStepId\":1,\"createdAt\":\"2024-01-01\"}",
   "{\"workflowStepId\":1,\"createdAt\":\"2024-01-02\"}",
   "{\"workflowStepId\":1,\"createdAt\":5}",
   "{\"workflowStepId\":\"x\",\"createdAt\":\"2024-01-02\"}",
   "{\"workflowStepId\":2,\"createdAt\":\"2024-01-02\"}"}

WorkflowStepIds == {1}
CreatedAts == {"2024-01-01", "2024-01-02"}

\* JSON.parse, and payload::jsonb: ok is FALSE where the text is not JSON; the
\* members are given as their JSON text
JSONParse(payload) ==
  CASE payload = "{\"workflowStepId\":1}" ->
         [ok |-> TRUE, workflowStepId |-> "1", createdAt |-> Missing]
    [] payload = "{\"workflowStepId\":1,\"createdAt\":\"2024-01-01\"}" ->
         [ok |-> TRUE, workflowStepId |-> "1", createdAt |-> "\"2024-01-01\""]
    [] payload = "{\"workflowStepId\":1,\"createdAt\":\"2024-01-02\"}" ->
         [ok |-> TRUE, workflowStepId |-> "1", createdAt |-> "\"2024-01-02\""]
    [] payload = "{\"workflowStepId\":1,\"createdAt\":5}" ->
         [ok |-> TRUE, workflowStepId |-> "1", createdAt |-> "5"]
    [] payload = "{\"workflowStepId\":\"x\",\"createdAt\":\"2024-01-02\"}" ->
         [ok |-> TRUE, workflowStepId |-> "\"x\"", createdAt |-> "\"2024-01-02\""]
    [] payload = "{\"workflowStepId\":2,\"createdAt\":\"2024-01-02\"}" ->
         [ok |-> TRUE, workflowStepId |-> "2", createdAt |-> "\"2024-01-02\""]
    [] payload = "{}" ->
         [ok |-> TRUE, workflowStepId |-> Missing, createdAt |-> Missing]
    [] OTHER ->
         [ok |-> FALSE, workflowStepId |-> Missing, createdAt |-> Missing]

\* a JSON number as an integer, NaN where the text is not one
NumberOf(text) ==
  CASE text = "1" -> 1
    [] text = "2" -> 2
    [] text = "5" -> 5
    [] OTHER -> NaN

\* a JSON string as its characters, Missing where the text is not a string
StringOf(text) ==
  CASE text = "\"x\"" -> "x"
    [] text = "\"2024-01-01\"" -> "2024-01-01"
    [] text = "\"2024-01-02\"" -> "2024-01-02"
    [] OTHER -> Missing

\* new Date(string) as days since 2024-01-01, NaN for an invalid date
DateParse(string) ==
  CASE string = "2024-01-01" -> 0
    [] string = "2024-01-02" -> 1
    [] OTHER -> NaN

\* scanWorkflowBodySchema.parse succeeds: workflowStepId is a number and createdAt,
\* where present, a string
SchemaConforms(json) ==
  /\ json.workflowStepId # Missing
  /\ NumberOf(json.workflowStepId) # NaN
  /\ json.createdAt # Missing => StringOf(json.createdAt) # Missing

\* ->> gives a member as text: a string without its quotes
TextOf(member) == IF StringOf(member) # Missing THEN StringOf(member) ELSE member

\* (payload::jsonb ->> 'workflowStepId')::int raises: the payload is not JSON, or
\* the member's text is not an integer
CastRaises(t) ==
  LET json == JSONParse(t.payload) IN
  \/ ~json.ok
  \/ /\ json.workflowStepId # Missing
     /\ NumberOf(TextOf(json.workflowStepId)) = NaN

\* "type" = 'scanWorkflowBody' AND "succeededAt" IS NULL
ScanTypeNotSucceeded(t) == t.type = "scanWorkflowBody" /\ t.succeededAt = NULL

\* the rows of T the query selects
QueryRaw(T, workflowStepId) ==
  {id \in DOMAIN T :
     /\ ScanTypeNotSucceeded(T[id])
     /\ ~CastRaises(T[id])
     /\ JSONParse(T[id].payload).workflowStepId # Missing
     /\ NumberOf(TextOf(JSONParse(T[id].payload).workflowStepId)) = workflowStepId}

\* the query raises where the cast is evaluated on a row it raises for: on every row
\* that passes the other two conditions, and on the other rows if the planner
\* evaluates the cast first
QueryRaises(T, castFirst) ==
  \E id \in DOMAIN T :
    /\ CastRaises(T[id])
    /\ castFirst \/ ScanTypeNotSucceeded(T[id])

\* the callback of tasks.some
IsNewer(payload, createdAt) ==
  LET json == JSONParse(payload) IN
  /\ json.ok
  /\ SchemaConforms(json)
  /\ json.createdAt # Missing
  /\ DateParse(StringOf(json.createdAt)) # NaN
  /\ DateParse(createdAt) # NaN
  /\ DateParse(StringOf(json.createdAt)) > DateParse(createdAt)

Some(T, workflowStepId, createdAt) ==
  \E id \in QueryRaw(T, workflowStepId) : IsNewer(T[id].payload, createdAt)

\* a boolean return value: ret holds ids, the boolean is in some
ReturnedSome(op, some) == [op |-> op, err |-> NoError, ret |-> NULL, some |-> some]

HasNewerScanTaskForStepId(workflowStepId, createdAt, castFirst) ==
  /\ result' = IF QueryRaises(tasks, castFirst)
               THEN Thrown("hasNewerScanTaskForStepId", RawQueryError)
               ELSE ReturnedSome("hasNewerScanTaskForStepId",
                                 Some(tasks, workflowStepId, createdAt))
  /\ UNCHANGED <<tasks, nextId, now, batch, calls, retryOnly, lost, inflight>>

ScanCreate ==
  \E type \in TaskTypes, payload \in ScanPayloads :
    /\ nextId <= MaxTasks
    /\ Create(type, payload, UNDEFINED, MaxMaxAttempts, UndefinedString)

DoHasNewerScanTaskForStepId ==
  \E workflowStepId \in WorkflowStepIds, createdAt \in CreatedAts, castFirst \in BOOLEAN :
    HasNewerScanTaskForStepId(workflowStepId, createdAt, castFirst)

ScanNext ==
  \/ ScanCreate
  \/ DoRetry(MaxCalls)
  \/ DoSucceed(MaxCalls)
  \/ DoCancel
  \/ DoHasNewerScanTaskForStepId

ScanSpec == Init /\ [][ScanNext]_vars

(* ============================== claims ================================= *)
Stored == DOMAIN tasks

\* not yet due, as the data model words it: scheduled later, not succeeded, not failed
NotYetDue(t, date) ==
  /\ t.scheduledAt > date
  /\ ~whereSucceeded(t)
  /\ ~whereMaxAttemptsReached(t)

\* how many of the four classifications select row t at the given time
Classifications(t, date) ==
  Cardinality({c \in {"notYetDue", "upcoming", "failed", "succeeded"} :
     \/ c = "notYetDue" /\ NotYetDue(t, date)
     \/ c = "upcoming" /\ makeWhereUpcomingTasks(t, date)
     \/ c = "failed" /\ whereMaxAttemptsReached(t)
     \/ c = "succeeded" /\ whereSucceeded(t)})

\* C1 Partition: at every time, every stored task is in exactly one of not-yet-due,
\* upcoming (getNextBatch/countUpcoming), failed (getFailed/countFailed) and
\* succeeded (getSucceeded/countSucceeded).
C1_Partition == \A id \in Stored : Classifications(tasks[id], now) = 1

\* C2 Atomic claiming: a task handed to one worker is not handed to another worker
\* before the first has reported it with succeed or retry.
C2_AtomicClaim ==
  \A w1, w2 \in Workers : w1 # w2 => Range(batch[w1]) \cap Range(batch[w2]) = {}

\* C3 Monotonic attempts: attempts is 0 plus the number of retry and succeed calls
\* made on the task; it never decreases and only a retry or succeed of that task
\* changes it.
C3_MonotonicAttempts ==
  /\ [](\A id \in Stored : tasks[id].attempts = calls[id])
  /\ [][\A id \in Stored \cap DOMAIN tasks' :
          /\ tasks'[id].attempts >= tasks[id].attempts
          /\ tasks'[id].attempts # tasks[id].attempts =>
               /\ result'.op \in {"retry", "succeed"}
               /\ result'.ret = id]_vars

\* a task that went through three calls, retries and a succeed among them
C3_Witness ==
  \E id \in Stored :
    /\ calls[id] >= 3
    /\ tasks[id].attempts = calls[id]
    /\ tasks[id].lastFailedAttemptAt # NULL
    /\ ~retryOnly[id]

\* C4 Single success: once succeededAt is set, no later call changes it or resets it.
C4_SingleSuccess ==
  [][\A id \in Stored \cap DOMAIN tasks' :
       tasks[id].succeededAt # NULL => tasks'[id].succeededAt = tasks[id].succeededAt]_vars

\* the rows that carry the given non-null reference and type
Collides(referenceUid, type) ==
  /\ referenceUid # UndefinedString
  /\ \E id \in Stored : tasks[id].referenceUid = referenceUid /\ tasks[id].type = type

\* C5 Dedup uniqueness: a create whose non-null referenceUid and type are those of a
\* stored task throws ConflictError and leaves the store as it was; a create without
\* referenceUid always inserts; no two stored tasks share a non-null
\* (referenceUid, type).
C5_DedupUniqueness ==
  /\ [](\A a, b \in Stored :
          (a # b /\ tasks[a].referenceUid # NullString
                 /\ tasks[a].referenceUid = tasks[b].referenceUid)
            => tasks[a].type # tasks[b].type)
  /\ [][result'.op = "create" =>
        \A type \in TaskTypes, payload \in Payloads,
           scheduledAt \in Dates(MaxNow) \cup {UNDEFINED},
           maxAttempts \in 1..MaxMaxAttempts,
           referenceUid \in ReferenceUids \cup {UndefinedString} :
          Create(type, payload, scheduledAt, maxAttempts, referenceUid) =>
            IF Collides(referenceUid, type)
            THEN result' = Thrown("create", ConflictError) /\ tasks' = tasks
            ELSE /\ result' = Returned("create", nextId)
                 /\ DOMAIN tasks' = Stored \cup {nextId}
                 /\ \A id \in Stored : tasks'[id] = tasks[id]]_vars

\* a create has just been refused while a task of the same reference and the other
\* type is stored next to the one it collided with
C5_Witness ==
  /\ result = Thrown("create", ConflictError)
  /\ \E a, b \in Stored :
       /\ a # b
       /\ tasks[a].referenceUid \in ReferenceUids
       /\ tasks[a].referenceUid = tasks[b].referenceUid

\* C6 Idempotent reference-cancel: cancelWithReference returns null and changes
\* nothing when no task has the (referenceUid, type); deletes exactly the matching
\* task and returns its id when there is one; and rethrows every store error that
\* is not the not-found one.
C6_ReferenceCancel ==
  [][result'.op = "cancelWithReference" =>
      \A referenceUid \in ReferenceUids, type \in TaskTypes, fault \in {NoError, StoreError} :
       CancelWithReference(referenceUid, type, fault) =>
         LET match == {id \in Stored : /\ tasks[id].referenceUid = referenceUid
                                        /\ tasks[id].type = type} IN
         IF fault # NoError
         THEN result' = Thrown("cancelWithReference", fault) /\ tasks' = tasks
         ELSE IF match = {}
         THEN result' = Returned("cancelWithReference", NULL) /\ tasks' = tasks
         ELSE \E id \in match :
                /\ match = {id}
                /\ result' = Returned("cancelWithReference", id)
                /\ DOMAIN tasks' = Stored \ {id}
                /\ \A other \in Stored \ {id} : tasks'[other] = tasks[other]]_vars

\* a cancelWithReference has just deleted one task and left another one stored
C6_Witness ==
  /\ result.op = "cancelWithReference"
  /\ result.err = NoError
  /\ result.ret \in Ids \ Stored
  /\ Stored # {}

\* C7 Backoff: retry with a given minRetryIntervalMins m (any m >= 0, 0 included)
\* sets scheduledAt to the time of the call plus m minutes; retry without it (absent
\* or null) leaves scheduledAt as it was.
C7_Backoff ==
  [][\A w \in Workers, taskId \in Stored, lastError \in LastErrors,
        m \in (0..MaxRetryMins) \cup {NULL, UNDEFINED} :
       Retry(w, taskId, lastError, m) =>
         IF m \in {NULL, UNDEFINED}
         THEN tasks'[taskId].scheduledAt = tasks[taskId].scheduledAt
         ELSE tasks'[taskId].scheduledAt = now + Minutes(m)]_vars

\* what countUpcoming returns at the given time
Upcoming(date) == {id \in Stored : makeWhereUpcomingTasks(tasks[id], date)}

\* b lists tasks of up without repeats, earliest scheduledAt first, and no task left
\* out is scheduled before one that is in
EarliestFirst(b, up) ==
  /\ Range(b) \subseteq up
  /\ \A i, j \in DOMAIN b : i # j => b[i] # b[j]
  /\ \A i, j \in DOMAIN b : i < j => tasks[b[i]].scheduledAt <= tasks[b[j]].scheduledAt
  /\ \A x \in Range(b), y \in up \ Range(b) : tasks[x].scheduledAt <= tasks[y].scheduledAt

C9_FailureThreshold ==
  /\ [](\A id \in Stored :
          retryOnly[id] =>
            /\ calls[id] < tasks[id].maxAttempts => ~whereMaxAttemptsReached(tasks[id])
            /\ calls[id] = tasks[id].maxAttempts => whereMaxAttemptsReached(tasks[id]))
  /\ [][result'.op = "getNextBatch" =>
         \A w \in Workers, limit \in 1..MaxTasks :
          GetNextBatch(w, limit) =>
            \A id \in Range(batch'[w]) :
              ~(retryOnly[id] /\ calls[id] >= tasks[id].maxAttempts)]_vars

\* a due task retried more often than its maxAttempts of 2 or more, right after a
\* getNextBatch that left it out
C9_Witness ==
  \E id \in Stored :
    /\ retryOnly[id]
    /\ tasks[id].maxAttempts >= 2
    /\ calls[id] > tasks[id].maxAttempts
    /\ tasks[id].scheduledAt < now
    /\ result.op = "getNextBatch"
    /\ \A w \in Workers : id \notin Range(batch[w])

\* the store without its succeeded and failed tasks
Kept == {id \in Stored : ~whereSucceeded(tasks[id]) /\ ~whereMaxAttemptsReached(tasks[id])}

\* C10 Cleanup postcondition: after cleanup the store is the store before minus its
\* succeeded and failed tasks, the others unchanged.
C10_Cleanup ==
  [][Cleanup => tasks' = [id \in Kept |-> tasks[id]]]_vars

\* the ids whose row was inserted and is gone: cancelled by id or by reference
Removed == {id \in Ids : id < nextId /\ id \notin Stored}

\* C13 Missing-task errors: retry, succeed and cancel of an id that is not stored
\* (never created, or removed) throw NotFoundError, create no task and leave every
\* stored task as it was.
C13_MissingTask ==
  [][result'.op \in {"retry", "succeed", "cancel"} =>
      \A taskId \in Ids \ Stored :
        /\ \A w \in Workers, lastError \in LastErrors,
              m \in (0..MaxRetryMins) \cup {NULL, UNDEFINED} :
             Retry(w, taskId, lastError, m) =>
               result' = Thrown("retry", NotFoundError) /\ tasks' = tasks
        /\ \A w \in Workers :
             Succeed(w, taskId) =>
               result' = Thrown("succeed", NotFoundError) /\ tasks' = tasks
        /\ Cancel(taskId) =>
             result' = Thrown("cancel", NotFoundError) /\ tasks' = tasks]_vars

\* a cancel of a task that was already removed has just been refused, another task
\* being stored
C13_Witness ==
  /\ result = Thrown("cancel", NotFoundError)
  /\ Removed # {}
  /\ Stored # {}

\* the upcoming tasks as the data model defines them
DueAndPending(date) ==
  {id \in Stored : /\ tasks[id].succeededAt = NULL
                   /\ tasks[id].scheduledAt <= date
                   /\ tasks[id].attempts < tasks[id].maxAttempts}

\* C14 Upcoming selection: what getNextBatch may return and countUpcoming counts is
\* exactly the stored tasks with succeededAt null, scheduledAt <= now and
\* attempts < maxAttempts; a task whose scheduledAt equals now is selected.
C14_UpcomingSelection ==
  /\ [](Upcoming(now) = DueAndPending(now))
  /\ [][result'.op = "getNextBatch" =>
         \A w \in Workers, limit \in 1..MaxTasks :
           GetNextBatch(w, limit) => Range(batch'[w]) = DueAndPending(now)]_vars

\* C15 Attempts ceiling: when every worker reports each task of its batch exactly once
\* and reports nothing else, attempts never exceeds maxAttempts.
C15_AttemptsCeiling ==
  \A id \in Stored : tasks[id].attempts <= tasks[id].maxAttempts

\* failed: attempts has reached maxAttempts without a success
Failed(t) == whereMaxAttemptsReached(t) /\ ~whereSucceeded(t)

\* C17 Failed is terminal: a failed task stays failed, whatever retry or succeed is
\* called on it, until it is removed.
C17_FailedTerminal ==
  [][\A id \in Stored \cap DOMAIN tasks' :
       Failed(tasks[id]) => Failed(tasks'[id])]_vars

\* C19 Cancellation prevents future claims only: a removed task never comes back, so
\* no later getNextBatch returns it and no count includes it; the cancel leaves the
\* batches of the workers alone; and the succeed or retry of a worker that still
\* holds the task throws NotFoundError and changes nothing.
C19_Cancellation ==
  [][/\ \A id \in Removed : id \notin DOMAIN tasks'
     /\ result'.op = "getNextBatch" =>
          \A w \in Workers : batch'[w] # batch[w] => Range(batch'[w]) \cap Removed = {}
     /\ \A id \in Stored \ DOMAIN tasks' : batch' = batch
     /\ result'.op \in {"retry", "succeed"} =>
          \A w \in Workers : \A id \in Range(batch[w]) \cap Removed :
            /\ Succeed(w, id) => result' = Thrown("succeed", NotFoundError)
            /\ \A lastError \in LastErrors, m \in (0..MaxRetryMins) \cup {NULL, UNDEFINED} :
                 Retry(w, id, lastError, m) => result' = Thrown("retry", NotFoundError)]_vars

\* a worker that held a task when it was cancelled has just had its succeed refused,
\* while the other worker still holds the cancelled task
C19_Witness ==
  \E id \in Removed :
    /\ result = Thrown("succeed", NotFoundError)
    /\ \E w \in Workers : id \in Range(batch[w])
    /\ \E w \in Workers : id \notin Range(batch[w])

\* C16 Eventual terminal outcome: with time advancing, workers polling and every task
\* handed out reported, a stored task is always eventually succeeded, failed or
\* cancelled; it cannot stay for ever neither claimable nor succeeded nor failed.
C16_EventualOutcome ==
  \A id \in Ids :
    [](id \in Stored =>
         <>(\/ id \notin Stored
            \/ whereSucceeded(tasks[id])
            \/ whereMaxAttemptsReached(tasks[id])))

\* a task that can still be executed: stored, not succeeded, attempts left
Pending(id) ==
  /\ id \in Stored
  /\ tasks[id].succeededAt = NULL
  /\ tasks[id].attempts < tasks[id].maxAttempts

C20_NoLostIncrement ==
  /\ [](\A id \in Stored : tasks[id].attempts = calls[id])
  /\ [][\A w \in Workers :
          (StoreUpdate(w) /\ inflight[w].taskId \in Stored) =>
            tasks'[inflight[w].taskId].attempts = tasks[inflight[w].taskId].attempts + 1]_vars

\* a call is in flight on a task that another call, made while it was in flight
\* too, has updated since
C20_Witness ==
  \E w \in Workers :
    /\ inflight[w] # NoCall
    /\ inflight[w].taskId \in Stored
    /\ inflight[w].seen < tasks[inflight[w].taskId].attempts
    /\ tasks[inflight[w].taskId].attempts = calls[inflight[w].taskId]

\* a task that is neither succeeded nor failed, of type scanWorkflowBody, whose
\* payload carries key k and a creation timestamp strictly later than c
SupersededBy(id, k, c) ==
  /\ tasks[id].type = "scanWorkflowBody"
  /\ ~whereSucceeded(tasks[id])
  /\ ~whereMaxAttemptsReached(tasks[id])
  /\ JSONParse(tasks[id].payload).ok
  /\ JSONParse(tasks[id].payload).workflowStepId # Missing
  /\ NumberOf(JSONParse(tasks[id].payload).workflowStepId) = k
  /\ IsNewer(tasks[id].payload, c)

\* C11 Supersession result: a supersession check that returns, returns true if and
\* only if the store holds a task of type scanWorkflowBody, not succeeded and not
\* failed, whose payload carries the key and a creation timestamp strictly later
\* than the candidate's.
C11_SupersessionResult ==
  [][result'.op = "hasNewerScanTaskForStepId" /\ result'.err = NoError =>
       \A k \in WorkflowStepIds, c \in CreatedAts :
         (\E castFirst \in BOOLEAN : HasNewerScanTaskForStepId(k, c, castFirst)) =>
           (result'.some <=> \E id \in Stored : SupersededBy(id, k, c))]_vars

\* a payload that is not parseable, fails the schema or lacks the creation timestamp
Malformed(payload) ==
  \/ ~JSONParse(payload).ok
  \/ ~SchemaConforms(JSONParse(payload))
  \/ JSONParse(payload).createdAt = Missing

\* the store without the rows of the checked type whose payload is malformed
WellFormed ==
  LET keep == {id \in Stored :
                 ~(tasks[id].type = "scanWorkflowBody" /\ Malformed(tasks[id].payload))}
  IN [id \in keep |-> tasks[id]]

\* C12 Lenient supersession: with the planner evaluating the payload cast last, the
\* supersession check raises no error and returns what it returns on the store
\* without the malformed rows of the checked type.
C12_LenientSupersession ==
  [][result'.op = "hasNewerScanTaskForStepId" =>
       \A k \in WorkflowStepIds, c \in CreatedAts :
         HasNewerScanTaskForStepId(k, c, FALSE) =>
           /\ result'.err = NoError
           /\ result'.some = Some(WellFormed, k, c)]_vars
====
